---- MODULE Spec2Model ----
(***************************************************************************)
(* A model of the two orchestration classes of the repository:            *)
(*   AzureCognitiveSearchManager (src/AzureSearch.py) and                  *)
(*   RAGSearchSystem             (src/openai.py).                          *)
(* The external services (search index, index management, completion      *)
(* endpoint) are the environment: every call either raises or returns,     *)
(* and what it returns is chosen by the environment within what the        *)
(* request allows.  A single thread runs one public operation at a time.   *)
(***************************************************************************)
EXTENDS Integers, Sequences, FiniteSets

VARIABLES
    index_name,  \* the manager's index_name (constructor argument)
    created,     \* service state: the index exists
    index,       \* service state: keys of the documents stored in the index
    pc,          \* "idle" | "upload_loop" | "done"
    op,          \* the public operation that is running or has just returned
    args,        \* the arguments of that operation
    documents,   \* upload_documents: the list being uploaded
    i,           \* upload_documents: the loop variable of range(0, len, batch_size)
    calls,       \* the service calls made by this invocation, in order
    out,         \* the lines printed by this invocation, in order
    ret          \* how the invocation ended: [kind |-> "return" | "raise" | "running", value]

vars == <<index_name, created, index, pc, op, args, documents, i, calls, out, ret>>

----------------------------------------------------------------------------
(* Program constants and bounds *)

batch_size == 1000

default_top_k == 5

MaxBatches == 2

MaxTop == 3

Min(a, b) == IF a < b THEN a ELSE b

\* Python's None, for string-valued places and for the `top` argument
None == "<None>"

NoTop == 0 - 1

NoFilter == [field |-> None, eq |-> None]

IndexNames == {"kirangajjana", "docs"}

----------------------------------------------------------------------------
(* Documents.  A document is identified by its key; its other fields are a *)
(* function of the key, of period 4.  One document in four has no content: *)
(* the schema makes only the key mandatory.                                *)

MaxDocs == MaxBatches * batch_size + 1

Doc(k) ==
    CASE k % 4 = 1 -> [id |-> k, title |-> "Azure AI Search",  content |-> "enterprise search",        category |-> "Azure"]
      [] k % 4 = 2 -> [id |-> k, title |-> "RAG Systems",      content |-> "retrieval and generation", category |-> "AI"]
      [] k % 4 = 3 -> [id |-> k, title |-> "Machine Learning", content |-> None,                       category |-> "ML"]
      [] OTHER     -> [id |-> k, title |-> "Azure Functions",  content |-> "serverless compute",       category |-> "Azure"]

\* the terms the service's full-text index holds for a document
Words(k) ==
    CASE k % 4 = 1 -> {"azure", "search"}
      [] k % 4 = 2 -> {"rag", "retrieval"}
      [] k % 4 = 3 -> {"learning"}
      [] OTHER     -> {"azure", "compute"}

\* the lengths of the lists given to upload_documents: around each batch boundary
DocCounts ==
    {n \in 0..MaxDocs :
        \/ n <= 1
        \/ \E b \in 1..MaxBatches : n \in {b * batch_size, b * batch_size + 1}}

DocList(n) == [none |-> FALSE, items |-> [j \in 1..n |-> j]]

DocumentInputs == {[none |-> TRUE, items |-> <<>>]} \cup {DocList(n) : n \in DocCounts}

\* `not documents`
Falsy(d) == d.none \/ Len(d.items) = 0

SearchTerms == {"azure", "learning", "nomatch"}

Categories == {"Azure", "ML", "Other"}

\* advanced_search: the optional arguments, absent (None), skipped ("") or given
AdvancedTerms == {None, "", "azure"}

AdvancedCategories == {None, "", "ML"}

Queries == {"azure", "learning", "nomatch"}

Answers == {"answer"}

----------------------------------------------------------------------------
(* The search service, as the requests of this repository use it *)

Truthy(s) == s # None /\ s # ""

\* the stored documents a query selects: full-text match and OData filter
Matches(idx, text, filter) ==
    {k \in idx :
        /\ text = "*" \/ text \in Words(k)
        /\ filter = NoFilter \/ Doc(k).category = filter.eq}

Reverse(s) == [j \in 1..Len(s) |-> s[Len(s) + 1 - j]]

\* the selected keys in the order the service ranks them
Ranked(S, order) ==
    LET In(k) == k \in S
        asc == SelectSeq([k \in 1..MaxDocs |-> k], In)
    IN  IF order = "asc" THEN asc ELSE Reverse(asc)

\* SearchClient.search(search_text, filter, top) consumed by list(): the first
\* `top` ranked matches, or all of them when no top is given
Search(idx, text, filter, top, order) ==
    LET m == Ranked(Matches(idx, text, filter), order)
        n == IF top = NoTop THEN Len(m) ELSE Min(top, Len(m))
    IN  [j \in 1..n |-> Doc(m[j])]

SearchOutcomes == [raised : BOOLEAN, order : {"asc", "desc"}]

SearchCall(text, filter, top, o) ==
    [svc |-> "search", text |-> text, filter |-> filter, top |-> top, raised |-> o.raised]

----------------------------------------------------------------------------
(* AzureCognitiveSearchManager *)

Returned(v) == [kind |-> "return", value |-> v]

SimpleField(name, key, filterable, facetable) ==
    [name |-> name, type |-> "Edm.String", key |-> key, searchable |-> FALSE,
     filterable |-> filterable, facetable |-> facetable]

SearchableField(name) ==
    [name |-> name, type |-> "Edm.String", key |-> FALSE, searchable |-> TRUE,
     filterable |-> FALSE, facetable |-> FALSE]

\* mutant: the category field declared filterable only
fields_category_not_facetable ==
    << SimpleField("id", TRUE, FALSE, FALSE),
       SearchableField("title"),
       SearchableField("content"),
       SimpleField("category", FALSE, TRUE, FALSE) >>

fields ==
    << SimpleField("id", TRUE, FALSE, FALSE),
       SearchableField("title"),
       SearchableField("content"),
       SimpleField("category", FALSE, TRUE, TRUE) >>

SearchIndex(name) == [name |-> name, fields |-> fields]

\* create_index(self), the service raising or not
create_index(name, raised) ==
    [calls |-> << [svc |-> "index", index |-> SearchIndex(name), raised |-> raised] >>,
     out   |-> IF raised THEN << [msg |-> "Error creating index"] >>
                         ELSE << [msg |-> "Index created successfully.", arg |-> name] >>,
     ret   |-> Returned(None)]

\* the 0-based index of the first result whose content is None, or Len(results)
FirstBad(results) ==
    IF \E j \in 1..Len(results) : results[j].content = None
    THEN (CHOOSE j \in 1..Len(results) :
            /\ results[j].content = None
            /\ \A h \in 1..(j - 1) : results[h].content # None) - 1
    ELSE Len(results)

\* _print_search_result(self, result): line `part` of the four it prints
print_search_result(result, part) ==
    CASE part = 0 -> [msg |-> "Title", arg |-> result.title]
      [] part = 1 -> [msg |-> "Category", arg |-> result.category]
      [] part = 2 -> [msg |-> "Content", arg |-> result.content, limit |-> 200]
      [] OTHER    -> [msg |-> "---"]

\* the lines of `for result in search_results: self._print_search_result(result)`;
\* result.get('content')[:200] raises TypeError on a None content, after the
\* Title and Category lines of that result were printed
PrintedLines(results) ==
    LET b == FirstBad(results)
        n == IF b < Len(results) THEN 4 * b + 2 ELSE 4 * b
    IN  [p \in 1..n |-> print_search_result(results[((p - 1) \div 4) + 1], (p - 1) % 4)]

\* the try block shared by the three search methods
search_body(idx, text, filter, top, header, error, o) ==
    LET call == SearchCall(text, filter, top, o)
        results == Search(idx, text, filter, top, o.order)
    IN  IF o.raised
        THEN [calls |-> <<call>>, out |-> << [msg |-> error] >>, ret |-> Returned(<<>>)]
        ELSE IF FirstBad(results) < Len(results)
        THEN [calls |-> <<call>>,
              out |-> << [msg |-> header] >> \o PrintedLines(results) \o << [msg |-> error] >>,
              ret |-> Returned(<<>>)]
        ELSE [calls |-> <<call>>,
              out |-> << [msg |-> header] >> \o PrintedLines(results),
              ret |-> Returned(results)]

search_by_keyword(idx, search_term, o) ==
    search_body(idx, search_term, NoFilter, NoTop,
                "--- Keyword Search Results ---", "Error in keyword search", o)

CategoryFilter(category) == [field |-> "category", eq |-> category]

search_by_category(idx, category, o) ==
    search_body(idx, "*", CategoryFilter(category), NoTop,
                "--- Category Search Results ---", "Error in category search", o)

advanced_search(idx, search_term, category, minimum_results, o) ==
    LET filter_condition == IF Truthy(category) THEN CategoryFilter(category) ELSE NoFilter
    IN  search_body(idx, IF Truthy(search_term) THEN search_term ELSE "*",
                    filter_condition, minimum_results,
                    "--- Advanced Search Results ---", "Error in advanced search", o)

\* mutant: the slice taken one element too long
Batch_overlap(items, start) ==
    SubSeq(items, start + 1, Min(start + batch_size + 1, Len(items)))

\* documents[i:i + batch_size]
Batch(items, start) == SubSeq(items, start + 1, Min(start + batch_size, Len(items)))

UploadOutcomes ==
    [raised : {FALSE}, applied : {TRUE}, failed : {"none", "first"}]
    \cup [raised : {TRUE}, applied : BOOLEAN, failed : {"all"}]

\* the per-document status the service reports for position j of a batch
Status(o, j) == o.failed = "none" \/ (o.failed = "first" /\ j # 1)

\* mutant: the except clause inside the loop, so that the loop goes on
upload_after_call_continues(o, results, start, printed) ==
    IF o.raised
    THEN [out |-> Append(printed, [msg |-> "Error uploading documents"]),
          i |-> start + batch_size, pc |-> "upload_loop",
          ret |-> [kind |-> "running", value |-> None]]
    ELSE [out |-> printed \o [j \in 1..Len(results) |->
                                [msg |-> "Upload status", key |-> results[j].key,
                                 status |-> results[j].status]],
          i |-> start + batch_size, pc |-> "upload_loop",
          ret |-> [kind |-> "running", value |-> None]]

\* upload_documents after the call for one batch: the except clause ends the
\* method, a returned call prints the statuses and the loop goes on
upload_after_call(o, results, start, printed) ==
    IF o.raised
    THEN [out |-> Append(printed, [msg |-> "Error uploading documents"]),
          i |-> start, pc |-> "done", ret |-> Returned(None)]
    ELSE [out |-> printed \o [j \in 1..Len(results) |->
                                [msg |-> "Upload status", key |-> results[j].key,
                                 status |-> results[j].status]],
          i |-> start + batch_size, pc |-> "upload_loop",
          ret |-> [kind |-> "running", value |-> None]]

----------------------------------------------------------------------------
(* RAGSearchSystem *)

\* mutant: a failed search is tried once more
semantic_search_retry(idx, query, top_k, o) ==
    LET call == SearchCall(query, NoFilter, top_k, o)
    IN  IF o.raised
        THEN [calls |-> <<call, call>>, out |-> << [msg |-> "Search error"] >>,
              ret |-> Returned(<<>>)]
        ELSE [calls |-> <<call>>, out |-> <<>>,
              ret |-> Returned(Search(idx, query, NoFilter, top_k, o.order))]

\* semantic_search(self, query, top_k=5)
semantic_search(idx, query, top_k, o) ==
    LET call == SearchCall(query, NoFilter, top_k, o)
    IN  IF o.raised
        THEN [calls |-> <<call>>, out |-> << [msg |-> "Search error"] >>, ret |-> Returned(<<>>)]
        ELSE [calls |-> <<call>>, out |-> <<>>,
              ret |-> Returned(Search(idx, query, NoFilter, top_k, o.order))]

\* result.get(key, default)
Get(result, key, default) == IF key \in DOMAIN result THEN result[key] ELSE default

\* how an f-string renders a value
Str(v) == IF v = None THEN "None" ELSE v

\* f"Title: {result.get('title', '')}\nContent: {result.get('content', '')}"
ContextEntry(result) ==
    << "Title: ", Str(Get(result, "title", "")), "\nContent: ", Str(Get(result, "content", "")) >>

\* "\n\n".join(entries), as the sequence of its pieces
RECURSIVE Join(_)
Join(entries) ==
    IF Len(entries) = 0 THEN <<>>
    ELSE IF Len(entries) = 1 THEN entries[1]
    ELSE entries[1] \o << "\n\n" >> \o Join(Tail(entries))

Context(search_results) ==
    Join([j \in 1..Len(search_results) |-> ContextEntry(search_results[j])])

Instructions == "Based on the provided context, generate a comprehensive and precise answer to the query."

Prompt(query, search_results) ==
    << "Context: " >> \o Context(search_results) \o << "Query: ", query, Instructions >>

Unable == "I'm unable to generate a response at the moment."

CompletionOutcomes ==
    {[kind |-> "raise", text |-> None], [kind |-> "no_choices", text |-> None]}
    \cup {[kind |-> "ok", text |-> a] : a \in Answers}

\* mutant: no except clause, the failure of the completion call propagates
generate_response_propagates(query, search_results, o) ==
    LET call == [svc |-> "openai",
                 messages |-> << [role |-> "system", content |-> << "You are a helpful AI assistant" >>],
                                 [role |-> "user", content |-> Prompt(query, search_results)] >>,
                 max_tokens |-> 300,
                 raised |-> (o.kind = "raise")]
    IN  IF o.kind = "ok"
        THEN [calls |-> <<call>>, out |-> <<>>, ret |-> Returned(o.text)]
        ELSE [calls |-> <<call>>, out |-> <<>>, ret |-> [kind |-> "raise", value |-> None]]

\* generate_response(self, query, search_results)
generate_response(query, search_results, o) ==
    LET call == [svc |-> "openai",
                 messages |-> << [role |-> "system", content |-> << "You are a helpful AI assistant" >>],
                                 [role |-> "user", content |-> Prompt(query, search_results)] >>,
                 max_tokens |-> 300,
                 raised |-> (o.kind = "raise")]
    IN  IF o.kind = "ok"
        THEN [calls |-> <<call>>, out |-> <<>>, ret |-> Returned(o.text)]
        ELSE [calls |-> <<call>>, out |-> << [msg |-> "OpenAI generation error"] >>,
              ret |-> Returned(Unable)]

\* mutant: no completion call when nothing was retrieved
rag_search_skips_empty(idx, query, so, co) ==
    LET s == semantic_search(idx, query, default_top_k, so)
        g == generate_response(query, s.ret.value, co)
    IN  IF s.ret.value = <<>>
        THEN [calls |-> s.calls, out |-> s.out, ret |-> Returned(<< <<>>, Unable >>)]
        ELSE [calls |-> s.calls \o g.calls, out |-> s.out \o g.out,
              ret |-> Returned(<< s.ret.value, g.ret.value >>)]

\* rag_search(self, query)
rag_search(idx, query, so, co) ==
    LET s == semantic_search(idx, query, default_top_k, so)
        g == generate_response(query, s.ret.value, co)
    IN  [calls |-> s.calls \o g.calls, out |-> s.out \o g.out,
         ret |-> Returned(<< s.ret.value, g.ret.value >>)]

----------------------------------------------------------------------------
(* The state machine *)

NoArgs == [text |-> None, category |-> None, top |-> NoTop, results |-> <<>>]

NoDocuments == [none |-> TRUE, items |-> <<>>]

Running == [kind |-> "running", value |-> None]

Init ==
    /\ index_name \in IndexNames
    /\ created \in BOOLEAN
    /\ index = {}
    /\ pc = "idle"
    /\ op = None
    /\ args = NoArgs
    /\ documents = NoDocuments
    /\ i = 0
    /\ calls = <<>>
    /\ out = <<>>
    /\ ret = Running

\* a public operation that runs to its end in one step
Finish(name, a, r) ==
    /\ op' = name
    /\ args' = a
    /\ calls' = r.calls
    /\ out' = r.out
    /\ ret' = r.ret
    /\ pc' = "done"

\* the service answers a query only for an index that exists
ServiceAnswers(o) == o.raised \/ created

CreateIndex ==
    /\ pc = "idle"
    /\ \E raised \in BOOLEAN :
        /\ raised \/ ~created
        /\ Finish("create_index", NoArgs, create_index(index_name, raised))
        /\ created' = (created \/ ~raised)
    /\ UNCHANGED <<index_name, index, documents, i>>

UploadDocuments ==
    /\ pc = "idle"
    /\ \E d \in DocumentInputs :
        /\ documents' = d
        /\ op' = "upload_documents"
        /\ args' = NoArgs
        /\ calls' = <<>>
        /\ i' = 0
        /\ IF Falsy(d)
           THEN /\ out' = << [msg |-> "No documents to upload."] >>
                /\ ret' = Returned(None)
                /\ pc' = "done"
           ELSE /\ out' = <<>>
                /\ ret' = Running
                /\ pc' = "upload_loop"
    /\ UNCHANGED <<index_name, created, index>>

\* one iteration of `for i in range(0, len(documents), batch_size)`
UploadBatch ==
    /\ pc = "upload_loop"
    /\ i < Len(documents.items)
    /\ \E o \in UploadOutcomes :
        LET batch == Batch(documents.items, i)
            call == [svc |-> "upload", start |-> i, batch |-> batch, raised |-> o.raised,
                     failed |-> o.failed]
            results == [j \in 1..Len(batch) |-> [key |-> batch[j], status |-> Status(o, j)]]
            stored == IF o.raised
                      THEN IF o.applied THEN {batch[j] : j \in 1..Len(batch)} ELSE {}
                      ELSE {batch[j] : j \in {h \in 1..Len(batch) : Status(o, h)}}
        IN  /\ ServiceAnswers(o)
            /\ o.applied => created
            /\ calls' = Append(calls, call)
            /\ index' = index \cup stored
            /\ LET r == upload_after_call(o, results, i, out)
               IN  /\ out' = r.out
                   /\ i' = r.i
                   /\ pc' = r.pc
                   /\ ret' = r.ret
    /\ UNCHANGED <<index_name, created, op, args, documents>>

\* the loop is exhausted
UploadFinish ==
    /\ pc = "upload_loop"
    /\ i >= Len(documents.items)
    /\ out' = Append(out, [msg |-> "Documents uploaded successfully."])
    /\ ret' = Returned(None)
    /\ pc' = "done"
    /\ UNCHANGED <<index_name, created, index, op, args, documents, i, calls>>

SearchByKeyword ==
    /\ pc = "idle"
    /\ \E t \in SearchTerms, o \in SearchOutcomes :
        /\ ServiceAnswers(o)
        /\ Finish("search_by_keyword", [NoArgs EXCEPT !.text = t], search_by_keyword(index, t, o))
    /\ UNCHANGED <<index_name, created, index, documents, i>>

SearchByCategory ==
    /\ pc = "idle"
    /\ \E c \in Categories, o \in SearchOutcomes :
        /\ ServiceAnswers(o)
        /\ Finish("search_by_category", [NoArgs EXCEPT !.category = c],
                  search_by_category(index, c, o))
    /\ UNCHANGED <<index_name, created, index, documents, i>>

AdvancedSearch ==
    /\ pc = "idle"
    /\ \E t \in AdvancedTerms, c \in AdvancedCategories,
          m \in 0..MaxTop, o \in SearchOutcomes :
        /\ ServiceAnswers(o)
        /\ Finish("advanced_search", [NoArgs EXCEPT !.text = t, !.category = c, !.top = m],
                  advanced_search(index, t, c, m, o))
    /\ UNCHANGED <<index_name, created, index, documents, i>>

SemanticSearch ==
    /\ pc = "idle"
    /\ \E q \in Queries, k \in {default_top_k, MaxTop}, o \in SearchOutcomes :
        /\ ServiceAnswers(o)
        /\ Finish("semantic_search", [NoArgs EXCEPT !.text = q, !.top = k],
                  semantic_search(index, q, k, o))
    /\ UNCHANGED <<index_name, created, index, documents, i>>

\* the result lists a caller hands to generate_response
ResultLists == {<<>>, << Doc(1) >>, << Doc(3), Doc(2) >>}

GenerateResponse ==
    /\ pc = "idle"
    /\ \E q \in Queries, rs \in ResultLists, o \in CompletionOutcomes :
        Finish("generate_response", [NoArgs EXCEPT !.text = q, !.results = rs],
               generate_response(q, rs, o))
    /\ UNCHANGED <<index_name, created, index, documents, i>>

RagSearch ==
    /\ pc = "idle"
    /\ \E q \in Queries, so \in SearchOutcomes, co \in CompletionOutcomes :
        /\ ServiceAnswers(so)
        /\ Finish("rag_search", [NoArgs EXCEPT !.text = q], rag_search(index, q, so, co))
    /\ UNCHANGED <<index_name, created, index, documents, i>>

\* the caller goes on to its next request
Return ==
    /\ pc = "done"
    /\ pc' = "idle"
    /\ op' = None
    /\ args' = NoArgs
    /\ documents' = NoDocuments
    /\ i' = 0
    /\ calls' = <<>>
    /\ out' = <<>>
    /\ ret' = Running
    /\ UNCHANGED <<index_name, created, index>>

Next ==
    \/ CreateIndex
    \/ UploadDocuments
    \/ UploadBatch
    \/ UploadFinish
    \/ SearchByKeyword
    \/ SearchByCategory
    \/ AdvancedSearch
    \/ SemanticSearch
    \/ GenerateResponse
    \/ RagSearch
    \/ Return

Spec == Init /\ [][Next]_vars

----------------------------------------------------------------------------
(* Properties *)

Range(s) == {s[j] : j \in 1..Len(s)}

RECURSIVE IsSubseq(_, _)
\* s can be read off t from left to right
IsSubseq(s, t) ==
    IF Len(s) = 0 THEN TRUE
    ELSE IF Len(t) = 0 THEN FALSE
    ELSE IF Head(s) = Head(t) THEN IsSubseq(Tail(s), Tail(t))
    ELSE IsSubseq(s, Tail(t))

RECURSIVE Mentions(_)
\* the titles and contents the results have, result by result
Mentions(results) ==
    IF Len(results) = 0 THEN <<>>
    ELSE (IF results[1].title # None THEN << results[1].title >> ELSE <<>>)
         \o (IF results[1].content # None THEN << results[1].content >> ELSE <<>>)
         \o Mentions(Tail(results))

Ended(name) == pc = "done" /\ op = name

UserMessages(call) == {m \in 1..Len(call.messages) : call.messages[m].role = "user"}

UserPrompt(call) == call.messages[CHOOSE m \in UserMessages(call) : TRUE].content

\* C1: every rag_search makes exactly one search call, with the query and
\* top = 5, and then exactly one completion call; the one user prompt of the
\* completion call holds the query and, in retrieval order, the title and
\* the content of every retrieved result; the completion call is made with an
\* empty context when the search failed or retrieved nothing.
C1_RagSequence ==
    Ended("rag_search") =>
        /\ Len(calls) = 2
        /\ calls[1].svc = "search"
        /\ calls[1].text = args.text
        /\ calls[1].top = 5
        /\ calls[2].svc = "openai"
        /\ Cardinality(UserMessages(calls[2])) = 1
        /\ args.text \in Range(UserPrompt(calls[2]))
        /\ IsSubseq(Mentions(ret.value[1]), UserPrompt(calls[2]))
        /\ (calls[1].raised \/ Len(ret.value[1]) = 0) =>
               /\ ret.value[1] = <<>>
               /\ "Title: " \notin Range(UserPrompt(calls[2]))

\* five results were retrieved out of more than five matches, two of them
\* with distinct titles, and the completion call returned
C1_Witness ==
    /\ Ended("rag_search")
    /\ Len(calls) = 2
    /\ Len(ret.value[1]) = 5
    /\ Cardinality(Matches(index, args.text, NoFilter)) > 5
    /\ ret.value[1][1].title # ret.value[1][2].title
    /\ ~calls[2].raised

SingleCallOps ==
    {"semantic_search", "generate_response", "create_index",
     "search_by_keyword", "search_by_category", "advanced_search"}

\* C2: nothing is retried: an invocation of a single-call operation has made
\* at most one service call, an invocation of upload_documents has sent no
\* batch twice, and rag_search has called each of its two services once.
C2_NoRetry ==
    /\ op \in SingleCallOps => Len(calls) <= 1
    /\ op = "upload_documents" =>
           \A a, b \in 1..Len(calls) :
               a # b => calls[a].start # calls[b].start /\ calls[a].batch # calls[b].batch
    /\ op = "rag_search" =>
           \A a, b \in 1..Len(calls) : a # b => calls[a].svc # calls[b].svc

\* the second batch of an upload failed and the method ended there
C2_Witness ==
    /\ Ended("upload_documents")
    /\ Len(calls) = 2
    /\ ~calls[1].raised
    /\ calls[2].raised
    /\ Len(documents.items) > 2 * batch_size

SearchOps == {"semantic_search", "search_by_keyword", "search_by_category", "advanced_search"}

\* C3: no public operation ends by raising; after a failed service call the
\* search operations return the empty list, generate_response returns the
\* fixed apology, create_index and upload_documents return normally, and
\* rag_search returns a pair (empty list after a failed search, the apology
\* after a failed completion).
C3_NoPropagation ==
    /\ ret.kind # "raise"
    /\ pc = "done" =>
        /\ ret.kind = "return"
        /\ (op \in SearchOps /\ calls[1].raised) => ret.value = <<>>
        /\ (op = "generate_response" /\ calls[1].raised) => ret.value = Unable
        /\ op = "rag_search" =>
            /\ Len(ret.value) = 2
            /\ calls[1].raised => ret.value[1] = <<>>
            /\ calls[Len(calls)].raised => ret.value[2] = Unable

\* both calls of a rag_search failed
C3_Witness ==
    /\ Ended("rag_search")
    /\ Len(calls) = 2
    /\ calls[1].raised
    /\ calls[2].raised
    /\ ret.value = << <<>>, Unable >>

\* the stored documents that match the optional term and the optional category
MatchingArgs ==
    {k \in index :
        /\ Truthy(args.text) => args.text \in Words(k)
        /\ Truthy(args.category) => Doc(k).category = args.category}

\* C4: when the search call of advanced_search returned and the index holds
\* at least minimum_results documents matching the term and the category,
\* advanced_search returns at least minimum_results results.
C4_MinimumResults ==
    (/\ Ended("advanced_search")
     /\ ~calls[1].raised
     /\ Cardinality(MatchingArgs) >= args.top)
    => Len(ret.value) >= args.top

FieldNames(ix, flag) == {ix.fields[f].name : f \in {g \in 1..Len(ix.fields) : ix.fields[g][flag]}}

\* C5: the index create_index submits is named index_name and has exactly the
\* four fields id, title, content, category; id alone is the key, title and
\* content alone are searchable, category alone is filterable and facetable.
C5_IndexSchema ==
    \A c \in 1..Len(calls) :
        calls[c].svc = "index" =>
            LET ix == calls[c].index
            IN  /\ ix.name = index_name
                /\ Len(ix.fields) = 4
                /\ {ix.fields[f].name : f \in 1..4} = {"id", "title", "content", "category"}
                /\ FieldNames(ix, "key") = {"id"}
                /\ FieldNames(ix, "searchable") = {"title", "content"}
                /\ FieldNames(ix, "filterable") = {"category"}
                /\ FieldNames(ix, "facetable") = {"category"}

\* the index was created
C5_Witness ==
    /\ Ended("create_index")
    /\ Len(calls) = 1
    /\ ~calls[1].raised
    /\ index_name = "docs"

RECURSIVE Sent(_)
\* the batches of the upload calls, one after the other
Sent(cs) == IF Len(cs) = 0 THEN <<>> ELSE cs[1].batch \o Sent(Tail(cs))

NoneRaised == \A c \in 1..Len(calls) : ~calls[c].raised

\* C6: while no batch fails, upload_documents has sent the first documents of
\* a non-empty list in input order, as consecutive batches of exactly 1000
\* documents, except that the last batch of the list may be shorter; when it
\* ends it has sent the whole list; for an empty list or None it calls nothing.
C6_Batches ==
    (op = "upload_documents" /\ NoneRaised) =>
        /\ Falsy(documents) => calls = <<>>
        /\ Sent(calls) = SubSeq(documents.items, 1, Min(i, Len(documents.items)))
        /\ \A c \in 1..Len(calls) :
            /\ Len(calls[c].batch) >= 1
            /\ Len(calls[c].batch) <= 1000
            /\ c < Len(calls) => Len(calls[c].batch) = 1000
            /\ Len(calls[c].batch) < 1000 => Len(Sent(calls)) = Len(documents.items)
        /\ pc = "done" => Sent(calls) = documents.items

\* a list of more than two full batches was sent whole
C6_Witness ==
    /\ Ended("upload_documents")
    /\ NoneRaised
    /\ Len(calls) >= 3
    /\ Len(calls[Len(calls)].batch) < batch_size

SuccessPrinted == \E l \in 1..Len(out) : out[l].msg = "Documents uploaded successfully."

\* the keys of a returned batch call that the service reported as stored
Accepted(call) ==
    {call.batch[j] : j \in {h \in 1..Len(call.batch) : Status([failed |-> call.failed], h)}}

====
